---- MODULE Spec2Model ----
(***************************************************************************)
(* Model of src/UI/Widgets/Terminal.cpp: the Terminal widget (a text       *)
(* document with a block limit) and the AnsiEscapeCodeHandler it feeds      *)
(* every received chunk through when VT-100 emulation is on.                *)
(*                                                                         *)
(* A text is a sequence of characters, a character a one-element string;   *)
(* the two control characters have the names ESC (0x1b) and BEL (0x07).     *)
(* A colour is <<r, g, b>>, NoBrush the brush of a format that sets none,   *)
(* InvalidColor a QColor built from out-of-range channels.                  *)
(***************************************************************************)
EXTENDS Integers, Sequences, FiniteSets, TLC

VARIABLES
    m_escapeCodeHandler, \* the decoder's fields, see HandlerInit
    document,            \* m_textEdit.document(): the sequence of blocks
    maximumBlockCount,   \* m_textEdit.maximumBlockCount()
    m_emulateVt100,
    widgetEnabled,       \* m_textEdit.isEnabled()
    m_autoscroll,
    height,              \* QQuickItem::height(), in pixels
    crashed,             \* the process was aborted by an out-of-range read
    call,                \* the operation that produced this state, what it
                         \* was given, the state it started in and what it returned
    arg                  \* the input of the colour specifications

vars == <<m_escapeCodeHandler, document, maximumBlockCount, m_emulateVt100,
          widgetEnabled, m_autoscroll, height, crashed, call, arg>>

----------------------------------------------------------------------------
(* Characters and strings (QChar, QString)                                  *)

ESC == "ESC"
BEL == "BEL"
NL == "\n"

Digits == {"0", "1", "2", "3", "4", "5", "6", "7", "8", "9"}

\* QChar::isDigit
isDigit(c) == c \in Digits

DigitValue(c) ==
    CASE c = "0" -> 0 [] c = "1" -> 1 [] c = "2" -> 2 [] c = "3" -> 3
      [] c = "4" -> 4 [] c = "5" -> 5 [] c = "6" -> 6 [] c = "7" -> 7
      [] c = "8" -> 8 [] c = "9" -> 9

\* QString::toUpper, on the letters the model's texts use
toUpperChar(c) ==
    CASE c = "a" -> "A" [] c = "b" -> "B" [] c = "c" -> "C" [] c = "d" -> "D"
      [] c = "h" -> "H" [] c = "j" -> "J" [] c = "k" -> "K" [] c = "m" -> "M"
      [] c = "n" -> "N" [] c = "x" -> "X"
      [] OTHER -> c

toUpper(s) == [i \in 1..Len(s) |-> toUpperChar(s[i])]

\* QString::remove(0, n)
remove(s, n) == IF n >= Len(s) THEN <<>> ELSE SubSeq(s, n + 1, Len(s))

\* QString::left(n)
left(s, n) == IF n >= Len(s) THEN s ELSE SubSeq(s, 1, n)

\* QString::startsWith: an empty prefix starts every string
startsWith(s, prefix) ==
    /\ Len(prefix) <= Len(s)
    /\ \A i \in 1..Len(prefix) : s[i] = prefix[i]

\* QString::indexOf, 0-based, -1 when absent
indexOf(s, needle) ==
    LET hits == {p \in 1..(Len(s) - Len(needle) + 1) :
                    \A i \in 1..Len(needle) : s[p + i - 1] = needle[i]}
    IN  IF hits = {} THEN -1
        ELSE (CHOOSE p \in hits : \A q \in hits : p <= q) - 1

\* QString::contains
contains(s, needle) == indexOf(s, needle) >= 0

RECURSIVE DecimalValue(_)
DecimalValue(s) ==
    IF s = <<>> THEN 0
    ELSE 10 * DecimalValue(SubSeq(s, 1, Len(s) - 1)) + DigitValue(s[Len(s)])

RECURSIVE StripZeros(_)
StripZeros(s) == IF s # <<>> /\ s[1] = "0" THEN StripZeros(Tail(s)) ELSE s

\* QString::toUInt on a run of digits: 0 when the value does not fit 32 bits.
\* A uint is held as the int of the same 32 bits, so a value from 2^31 to
\* 2^32 - 1 is the negative number v - 2^32.
toUInt(s) ==
    LET z == StripZeros(s)
        a == DecimalValue(SubSeq(z, 1, 9))
        d == DigitValue(z[10])
    IN  IF Len(z) < 10 THEN DecimalValue(z)
        ELSE IF Len(z) > 10 THEN 0
        ELSE IF a < 214748364 \/ (a = 214748364 /\ d <= 7) THEN a * 10 + d
        ELSE IF a < 429496729 \/ (a = 429496729 /\ d <= 5)
            THEN (a - 429496729) * 10 + (d - 6)
        ELSE 0

\* QString::toInt on a run of digits: 0 when the value does not fit
toInt(s) ==
    LET z == StripZeros(s)
        a == DecimalValue(SubSeq(z, 1, 9))
        d == DigitValue(z[10])
    IN  IF Len(z) < 10 THEN DecimalValue(z)
        ELSE IF Len(z) > 10 THEN 0
        ELSE IF a < 214748364 \/ (a = 214748364 /\ d <= 7) THEN a * 10 + d
        ELSE 0

----------------------------------------------------------------------------
(* Colours and formats (QColor, QTextCharFormat)                            *)

NoBrush == <<>>
InvalidColor == <<-1, -1, -1>>

\* QColor(r, g, b): invalid when a channel is out of range
QColor(r, g, b) ==
    IF r \in 0..255 /\ g \in 0..255 /\ b \in 0..255 THEN <<r, g, b>>
    ELSE InvalidColor

\* QColor::lighter(factor) for factor >= 100: the value of the colour in HSV
\* (16 bits a channel) is multiplied, hue and saturation are kept, so every
\* channel grows by the factor; a value over 16 bits is cut to 65535.
lighter(color, factor) ==
    LET max3(a, b, c) == IF a >= b /\ a >= c THEN a ELSE IF b >= c THEN b ELSE c
        m  == max3(color[1], color[2], color[3])
        v  == m * 257
        v2 == IF (factor * v) \div 100 > 65535 THEN 65535 ELSE (factor * v) \div 100
        ch(x) == IF m = 0 THEN 0 ELSE ((x * v2) \div m) \div 256
    IN  IF color = InvalidColor THEN InvalidColor
        ELSE <<ch(color[1]), ch(color[2]), ch(color[3])>>

ansiColorBugSwapped(code) ==
    IF ~(code < 8) THEN InvalidColor
    ELSE QColor(IF (code \div 4) % 2 = 1 THEN 170 ELSE 0,
                IF (code \div 2) % 2 = 1 THEN 170 ELSE 0,
                IF code % 2 = 1 THEN 170 ELSE 0)

ansiColor(code) ==
    IF ~(code < 8) THEN InvalidColor
    ELSE QColor(IF code % 2 = 1 THEN 170 ELSE 0,
                IF (code \div 2) % 2 = 1 THEN 170 ELSE 0,
                IF (code \div 4) % 2 = 1 THEN 170 ELSE 0)

\* A default-constructed QTextCharFormat, as FormattedText(data) carries
DefaultFormat == [foreground |-> NoBrush, background |-> NoBrush, fontWeight |-> "Normal"]

FormattedText(text, format) == [text |-> text, format |-> format]

----------------------------------------------------------------------------
(* AnsiEscapeCodeHandler                                                    *)

\* The handler's fields as Terminal's constructor leaves them
HandlerInit ==
    [m_pendingText |-> <<>>,
     m_waitingForTerminator |-> FALSE,
     m_alternateTerminator |-> <<>>,
     m_previousFormatClosed |-> TRUE,
     m_previousFormat |-> DefaultFormat]

endFormatScope(h) == [h EXCEPT !.m_previousFormatClosed = TRUE]

setFormatScopeBugStaysClosed(h, charFormat) ==
    [h EXCEPT !.m_previousFormat = charFormat]

setFormatScope(h, charFormat) ==
    [h EXCEPT !.m_previousFormat = charFormat, !.m_previousFormatClosed = FALSE]

\* enum AnsiEscapeCodes
ResetFormat == 0
BoldText == 1
TextColorStart == 30
TextColorEnd == 37
RgbTextColor == 38
DefaultTextColor == 39
BackgroundColorStart == 40
BackgroundColorEnd == 47
RgbBackgroundColor == 48
DefaultBackgroundColor == 49

escape == <<ESC, "[">>
semicolon == ";"
colorTerminator == "m"
eraseToEol == "K"

\* What an out-of-range numbers.at(i) can do: abort the process (the
\* assertion of a checked build, a fault of an unchecked one) or read
\* whatever lies behind the list, taken as the value UbRead of the read.
UbAbort == -1

setForeground(f, c) == [f EXCEPT !.foreground = c]
setBackground(f, c) == [f EXCEPT !.background = c]

\* int((index - 232) * 11) in uint arithmetic, on the two 16-bit halves of
\* the 32 bits
GreyOf(index) ==
    LET hi == (index \div 65536) % 65536
        lo == index % 65536
        lo1 == IF lo >= 232 THEN lo - 232 ELSE lo + 65536 - 232
        hi1 == IF lo >= 232 THEN hi ELSE (hi + 65535) % 65536
        lo2 == (lo1 * 11) % 65536
        hi2 == (hi1 * 11 + (lo1 * 11) \div 65536) % 65536
    IN  IF hi2 < 32768 THEN hi2 * 65536 + lo2 ELSE (hi2 - 65536) * 65536 + lo2

\* index < n for a uint index
ULess(index, n) == index >= 0 /\ index < n

Color256BugCube(index) ==
    IF ULess(index, 8) THEN ansiColor(index)
    ELSE IF ULess(index, 16) THEN lighter(ansiColor(index - 8), 150)
    ELSE IF ULess(index, 232)
        THEN LET o == index - 16
             IN  QColor((o \div 36) * 51, (o \div 6) * 51 , (o % 6) * 51)
    ELSE QColor(GreyOf(index), GreyOf(index), GreyOf(index))

\* The colour of a 256-colour palette index (case 5 of the extended colours)
Color256(index) ==
    IF ULess(index, 8) THEN ansiColor(index)
    ELSE IF ULess(index, 16) THEN lighter(ansiColor(index - 8), 150)
    ELSE IF ULess(index, 232)
        THEN LET o == index - 16
             IN  QColor((o \div 36) * 51, ((o \div 6) % 6) * 51, (o % 6) * 51)
    ELSE QColor(GreyOf(index), GreyOf(index), GreyOf(index))

\* The parser's working state: s.st is strippedText, s.out outputData,
\* s.fmt charFormat, s.h the handler's fields; s.erase the erase command the
\* call performed on the text edit, s.fault an out-of-range read, s.aborted
\* the process ended by it, s.returned a return from inside the loops.
\* s.outerLen and s.innerLen are the lengths strippedText had when the last
\* iteration of the outer and of the inner loop began (-1: none yet);
\* s.stalled says that an iteration began with a text no shorter than the
\* one before it, and the loops are followed no further.
ParserStartBugCarry(h, input) ==
    [st |-> IF h.m_pendingText = <<>> THEN input.text ELSE h.m_pendingText \o input.text,
     out |-> <<>>,
     fmt |-> h.m_previousFormat,
     h |-> [h EXCEPT !.m_pendingText = <<>>],
     erase |-> "none",
     fault |-> FALSE,
     aborted |-> FALSE,
     returned |-> FALSE,
     stalled |-> FALSE,
     outerLen |-> -1,
     innerLen |-> -1]

ParserStartBugBaseline(h, input) ==
    [st |-> IF h.m_pendingText = <<>> THEN input.text ELSE h.m_pendingText \o input.text,
     out |-> <<>>,
     fmt |-> input.format,
     h |-> [h EXCEPT !.m_pendingText = <<>>],
     erase |-> "none",
     fault |-> FALSE,
     aborted |-> FALSE,
     returned |-> FALSE,
     stalled |-> FALSE,
     outerLen |-> -1,
     innerLen |-> -1]

ParserStart(h, input) ==
    [st |-> IF h.m_pendingText = <<>> THEN input.text ELSE h.m_pendingText \o input.text,
     out |-> <<>>,
     fmt |-> IF h.m_previousFormatClosed THEN input.format ELSE h.m_previousFormat,
     h |-> [h EXCEPT !.m_pendingText = <<>>],
     erase |-> "none",
     fault |-> FALSE,
     aborted |-> FALSE,
     returned |-> FALSE,
     stalled |-> FALSE,
     outerLen |-> -1,
     innerLen |-> -1]

SetFmtBugNotStored(s, f) == [s EXCEPT !.fmt = f, !.h.m_previousFormatClosed = FALSE]

SetFmt(s, f) == [s EXCEPT !.fmt = f, !.h = setFormatScope(s.h, f)]

\* case RgbTextColor / RgbBackgroundColor, entered with i already advanced
\* to the mode parameter; gives the parser state and the i the case leaves
ExtendedColorBugNoSkip(s, numbers, i, code, ub) ==
    LET n == Len(numbers)
        mode == toInt(numbers[i + 1])
        put(c) == SetFmt(s, IF code = RgbTextColor THEN setForeground(s.fmt, c)
                                                    ELSE setBackground(s.fmt, c))
    IN  IF mode = 2
            THEN [s |-> IF i + 3 < n
                          THEN put(QColor(toInt(numbers[i + 2]), toInt(numbers[i + 3]),
                                          toInt(numbers[i + 4])))
                          ELSE s,
                  i |-> i]
        ELSE IF mode = 5
            THEN IF i + 1 < n
                   THEN [s |-> put(Color256(toUInt(numbers[i + 2]))), i |-> i + 1]
                 ELSE IF ub = UbAbort
                   THEN [s |-> [s EXCEPT !.fault = TRUE, !.aborted = TRUE], i |-> i]
                 ELSE [s |-> [put(Color256(ub)) EXCEPT !.fault = TRUE], i |-> i + 1]
        ELSE [s |-> s, i |-> i]

ExtendedColor(s, numbers, i, code, ub) ==
    LET n == Len(numbers)
        mode == toInt(numbers[i + 1])
        put(c) == SetFmt(s, IF code = RgbTextColor THEN setForeground(s.fmt, c)
                                                    ELSE setBackground(s.fmt, c))
    IN  IF mode = 2
            THEN [s |-> IF i + 3 < n
                          THEN put(QColor(toInt(numbers[i + 2]), toInt(numbers[i + 3]),
                                          toInt(numbers[i + 4])))
                          ELSE s,
                  i |-> i + 3]
        ELSE IF mode = 5
            THEN IF i + 1 < n
                   THEN [s |-> put(Color256(toUInt(numbers[i + 2]))), i |-> i + 1]
                 ELSE IF ub = UbAbort
                   THEN [s |-> [s EXCEPT !.fault = TRUE, !.aborted = TRUE], i |-> i]
                 ELSE [s |-> [put(Color256(ub)) EXCEPT !.fault = TRUE], i |-> i + 1]
        ELSE [s |-> s, i |-> i]

\* for (int i = 0; i < numbers.size(); ++i): i counts from 0 as in the code
RECURSIVE ApplyCodes(_, _, _, _, _)

\* The loop goes on after an extended colour e left its state and its i
AfterExtendedColor(e, numbers, input, ub) == ApplyCodes(e.s, numbers, e.i + 1, input, ub)

\* One round of the loop, for the code at i
ApplyCode(s, numbers, i, input, ub, code) ==
    IF code >= TextColorStart /\ code <= TextColorEnd
      THEN ApplyCodes(SetFmt(s, setForeground(s.fmt, ansiColor(code - TextColorStart))),
                      numbers, i + 1, input, ub)
    ELSE IF code >= BackgroundColorStart /\ code <= BackgroundColorEnd
      THEN ApplyCodes(SetFmt(s, setBackground(s.fmt, ansiColor(code - BackgroundColorStart))),
                      numbers, i + 1, input, ub)
    ELSE IF code = ResetFormat
      THEN ApplyCodes([s EXCEPT !.fmt = input.format, !.h = endFormatScope(s.h)],
                      numbers, i + 1, input, ub)
    ELSE IF code = BoldText
      THEN ApplyCodes(SetFmt(s, [s.fmt EXCEPT !.fontWeight = "Bold"]),
                      numbers, i + 1, input, ub)
    ELSE IF code = DefaultTextColor
      THEN ApplyCodes(SetFmt(s, setForeground(s.fmt, input.format.foreground)),
                      numbers, i + 1, input, ub)
    ELSE IF code = DefaultBackgroundColor
      THEN ApplyCodes(SetFmt(s, setBackground(s.fmt, input.format.background)),
                      numbers, i + 1, input, ub)
    ELSE IF code = RgbTextColor \/ code = RgbBackgroundColor
      THEN IF i + 1 >= Len(numbers)
             THEN ApplyCodes(s, numbers, i + 2, input, ub)
             ELSE AfterExtendedColor(ExtendedColor(s, numbers, i + 1, code, ub),
                                     numbers, input, ub)
    ELSE ApplyCodes(s, numbers, i + 1, input, ub)

ApplyCodes(s, numbers, i, input, ub) ==
    IF i >= Len(numbers) \/ s.aborted THEN s
    ELSE ApplyCode(s, numbers, i, input, ub, toUInt(numbers[i + 1]))

\* The parameter loop: digits go to strNumber, ';' closes a number; every
\* character it passes is appended to m_pendingText
RECURSIVE ScanNumbers(_, _, _, _)
ScanNumbers(st, strNumber, numbers, pending) ==
    IF st = <<>> THEN [st |-> st, numbers |-> numbers, pending |-> pending]
    ELSE IF isDigit(st[1])
        THEN ScanNumbers(remove(st, 1), Append(strNumber, st[1]), numbers,
                         Append(pending, st[1]))
    ELSE
      LET numbers2 == IF strNumber # <<>> THEN Append(numbers, strNumber) ELSE numbers
      IN  IF strNumber = <<>> \/ st[1] # semicolon
            THEN [st |-> st, numbers |-> numbers2, pending |-> pending]
            ELSE ScanNumbers(remove(st, 1), <<>>, numbers2, Append(pending, st[1]))

\* "Clear line": the cursor goes to the end of the document and to the start
\* of its line, the text up to the end is removed, then deletePreviousChar
\* removes the block separator before it, if there is one
ClearCurrentLine(doc) ==
    IF Len(doc) > 1 THEN SubSeq(doc, 1, Len(doc) - 1) ELSE << <<>> >>

\* QPlainTextEdit::clear
ClearScreen(doc) == << <<>> >>

TwoCharSequenceBugKeepsLetter(s) ==
    LET c == s.st[2]
    IN  IF c \in {"\\", "N", "O"}
          THEN [s EXCEPT !.st = remove(s.st, 1)]
        ELSE IF c \in {"]", "P", "X", "^", "_"}
          THEN [s EXCEPT !.st = remove(s.st, 2),
                         !.h = [s.h EXCEPT
                                  !.m_waitingForTerminator = TRUE,
                                  !.m_alternateTerminator =
                                      IF c = "]" THEN <<BEL>> ELSE s.h.m_alternateTerminator]]
        ELSE s

TwoCharSequenceBugBellForAll(s) ==
    LET c == s.st[2]
    IN  IF c \in {"\\", "N", "O"}
          THEN [s EXCEPT !.st = remove(s.st, 2)]
        ELSE IF c \in {"]", "P", "X", "^", "_"}
          THEN [s EXCEPT !.st = remove(s.st, 2),
                         !.h = [s.h EXCEPT
                                  !.m_waitingForTerminator = TRUE,
                                  !.m_alternateTerminator = <<BEL>>]]
        ELSE s

\* The switch on the character after an ESC that does not start "ESC["
TwoCharSequence(s) ==
    LET c == s.st[2]
    IN  IF c \in {"\\", "N", "O"}
          THEN [s EXCEPT !.st = remove(s.st, 2)]
        ELSE IF c \in {"]", "P", "X", "^", "_"}
          THEN [s EXCEPT !.st = remove(s.st, 2),
                         !.h = [s.h EXCEPT
                                  !.m_waitingForTerminator = TRUE,
                                  !.m_alternateTerminator =
                                      IF c = "]" THEN <<BEL>> ELSE s.h.m_alternateTerminator]]
        ELSE s

\* The inner loop, while strippedText starts with ESC. It ends in a state
\* the outer loop goes on from, or with s.returned.
RECURSIVE EscapeLoop(_, _, _)

\* After the parameter loop n: the sequence is incomplete, or ends in
\* another character than 'm', or its codes are applied
SgrSequence(s, n, input, ub) ==
    IF n.st = <<>>
      THEN [s EXCEPT !.h.m_pendingText = n.pending, !.st = n.st]
    ELSE IF ~startsWith(n.st, <<colorTerminator>>)
      THEN [s EXCEPT !.h.m_pendingText = <<>>, !.st = remove(n.st, 1)]
    ELSE IF n.numbers = <<>>
      THEN EscapeLoop([s EXCEPT !.h = endFormatScope([s.h EXCEPT !.m_pendingText = <<>>]),
                                !.st = remove(n.st, 1),
                                !.fmt = input.format],
                      input, ub)
    ELSE EscapeLoop(ApplyCodes([s EXCEPT !.h.m_pendingText = <<>>, !.st = remove(n.st, 1)],
                               n.numbers, 0, input, ub),
                    input, ub)

\* After "ESC[" has gone from strippedText to m_pendingText: the erase
\* commands, the unsupported ESC[K, or the parameters of a sequence
ControlSequence(s, input, ub) ==
    IF contains(toUpper(s.st), <<"2", "K">>)
      THEN [s EXCEPT !.erase = "line", !.returned = TRUE]
    ELSE IF contains(toUpper(s.st), <<"2", "J">>)
      THEN [s EXCEPT !.erase = "screen", !.out = <<>>, !.returned = TRUE]
    ELSE IF startsWith(s.st, <<eraseToEol>>)
      THEN EscapeLoop([s EXCEPT !.h.m_pendingText = <<>>, !.st = remove(s.st, 1)],
                      input, ub)
    ELSE SgrSequence(s, ScanNumbers(s.st, <<>>, <<>>, s.h.m_pendingText), input, ub)

\* One iteration of the inner loop
EscapeIteration(s, input, ub) ==
    IF startsWith(escape, s.st)
        \* control sequence is not complete
        THEN [s EXCEPT !.h.m_pendingText = @ \o s.st, !.st = <<>>]
    ELSE IF ~startsWith(s.st, escape)
        THEN IF Len(s.st) < 2 THEN [s EXCEPT !.fault = TRUE, !.aborted = TRUE]
             ELSE IF s.st[2] \in {"\\", "N", "O", "]", "P", "X", "^", "_"}
               THEN TwoCharSequence(s)
             \* not a control sequence
             ELSE EscapeLoop([s EXCEPT !.h.m_pendingText = <<>>,
                                       !.out = Append(s.out, FormattedText(left(s.st, 1), s.fmt)),
                                       !.st = remove(s.st, 1)],
                             input, ub)
    ELSE ControlSequence([s EXCEPT !.h.m_pendingText = @ \o left(s.st, Len(escape)),
                                   !.st = remove(s.st, Len(escape))],
                         input, ub)

EscapeLoop(s, input, ub) ==
    IF s.st = <<>> \/ s.st[1] # ESC \/ s.aborted \/ s.stalled THEN s
    ELSE IF s.innerLen # -1 /\ Len(s.st) >= s.innerLen THEN [s EXCEPT !.stalled = TRUE]
    ELSE EscapeIteration([s EXCEPT !.innerLen = Len(s.st)], input, ub)

\* The search for the terminator of a string sequence: "ESC \" first, the
\* alternate terminator only when that is absent
FindTerminator(st, alternate) ==
    LET p1 == indexOf(st, <<ESC, "\\">>)
    IN  IF p1 = -1 /\ alternate # <<>>
          THEN [pos |-> indexOf(st, alternate), len |-> Len(alternate)]
          ELSE [pos |-> p1, len |-> 2]

\* outputData << FormattedText(text, charFormat)
Emit(out, text, format) == Append(out, FormattedText(text, format))

\* while (!strippedText.isEmpty())
RECURSIVE TextLoop(_, _, _)

EmitTextBugEmptyRun(s, escapePos, input, ub) ==
    IF escapePos < 0
      THEN [s EXCEPT !.out = Emit(s.out, s.st, s.fmt), !.st = <<>>]
    ELSE TextLoop(EscapeLoop([s EXCEPT !.out = Emit(s.out, left(s.st, escapePos), s.fmt),
                                       !.st = remove(s.st, escapePos)], input, ub),
                  input, ub)

\* The text up to the next ESC is emitted, the escape sequences after it are
\* taken by the inner loop, and the outer loop goes on
EmitText(s, escapePos, input, ub) ==
    IF escapePos < 0
      THEN [s EXCEPT !.out = Emit(s.out, s.st, s.fmt), !.st = <<>>]
    ELSE IF escapePos # 0
      THEN TextLoop(EscapeLoop([s EXCEPT !.out = Emit(s.out, left(s.st, escapePos), s.fmt),
                                         !.st = remove(s.st, escapePos)], input, ub),
                    input, ub)
    ELSE TextLoop(EscapeLoop(s, input, ub), input, ub)

SkipStringBugPayloadLeftPending(s, t) ==
    IF t.pos = -1
      THEN [s EXCEPT !.h.m_pendingText = s.st, !.st = <<>>, !.returned = TRUE]
      ELSE [s EXCEPT !.h.m_waitingForTerminator = FALSE,
                     !.h.m_alternateTerminator = <<>>,
                     !.h.m_pendingText = left(s.st, t.pos),
                     !.st = remove(s.st, t.pos + t.len)]

SkipStringBugKeepsAlternate(s, t) ==
    IF t.pos = -1
      THEN [s EXCEPT !.h.m_pendingText = s.st, !.st = <<>>, !.returned = TRUE]
      ELSE [s EXCEPT !.h.m_waitingForTerminator = FALSE,
                     !.st = remove(s.st, t.pos + t.len)]

SkipStringBugDropsPayload(s, t) ==
    IF t.pos = -1
      THEN [s EXCEPT !.h.m_pendingText = <<>>, !.st = <<>>, !.returned = TRUE]
      ELSE [s EXCEPT !.h.m_waitingForTerminator = FALSE,
                     !.h.m_alternateTerminator = <<>>,
                     !.st = remove(s.st, t.pos + t.len)]

\* if (m_waitingForTerminator): everything up to the terminator t is
\* dropped, or everything is kept as pending text
SkipString(s, t) ==
    IF t.pos = -1
      THEN [s EXCEPT !.h.m_pendingText = s.st, !.st = <<>>, !.returned = TRUE]
      ELSE [s EXCEPT !.h.m_waitingForTerminator = FALSE,
                     !.h.m_alternateTerminator = <<>>,
                     !.st = remove(s.st, t.pos + t.len)]

\* One round of the outer loop from the state s the string branch left
TextRound(s, input, ub) ==
    IF s.returned \/ s.st = <<>> THEN s
    ELSE EmitText(s, indexOf(s.st, <<ESC>>), input, ub)

\* One iteration of the outer loop
TextIteration(s, input, ub) ==
    IF s.h.m_waitingForTerminator
      THEN TextRound(SkipString(s, FindTerminator(s.st, s.h.m_alternateTerminator)),
                     input, ub)
    ELSE TextRound(s, input, ub)

TextLoop(s, input, ub) ==
    IF s.st = <<>> \/ s.returned \/ s.aborted \/ s.stalled THEN s
    ELSE IF s.h.m_pendingText # <<>> THEN s
    ELSE IF s.outerLen # -1 /\ Len(s.st) >= s.outerLen THEN [s EXCEPT !.stalled = TRUE]
    ELSE TextIteration([s EXCEPT !.outerLen = Len(s.st), !.innerLen = -1], input, ub)

\* What a call leaves and returns, from the parser's last state
Returned(s) ==
    [h |-> s.h, out |-> s.out, erase |-> s.erase, fault |-> s.fault, aborted |-> s.aborted,
     stalled |-> s.stalled, charFormat |-> s.fmt]

\* AnsiEscapeCodeHandler::parseText: the handler's fields afterwards, the
\* vector returned, the erase command performed on the text edit, and
\* whether a read went out of range and ended the process
parseText(h, input, ub) == Returned(TextLoop(ParserStart(h, input), input, ub))

----------------------------------------------------------------------------
(* The text document of m_textEdit (QPlainTextEdit, QTextDocument)          *)

\* A new QTextDocument: one empty block
EmptyDocument == << <<>> >>

\* QTextCursor::insertText at the end of the document: a newline starts a block
RECURSIVE insertText(_, _)
insertText(doc, text) ==
    IF text = <<>> THEN doc
    ELSE IF text[1] = NL THEN insertText(Append(doc, <<>>), remove(text, 1))
    ELSE insertText([doc EXCEPT ![Len(doc)] = Append(@, text[1])], remove(text, 1))

ensureMaximumBlockCountBugOffByOne(doc, maxBlockCount) ==
    IF maxBlockCount <= 0 \/ Len(doc) <= maxBlockCount + 1 THEN doc
    ELSE SubSeq(doc, Len(doc) - maxBlockCount, Len(doc))

ensureMaximumBlockCountBugKeepOldest(doc, maxBlockCount) ==
    IF maxBlockCount <= 0 \/ Len(doc) <= maxBlockCount THEN doc
    ELSE SubSeq(doc, 1, maxBlockCount)

\* "If there are more blocks in the document than specified with this
\* property blocks are removed from the beginning of the document. A negative
\* or zero value specifies that the document may contain an unlimited amount
\* of blocks."
ensureMaximumBlockCount(doc, maxBlockCount) ==
    IF maxBlockCount <= 0 \/ Len(doc) <= maxBlockCount THEN doc
    ELSE SubSeq(doc, Len(doc) - maxBlockCount + 1, Len(doc))

\* QPlainTextEdit::appendPlainText: a new paragraph, unless the document is empty
appendPlainText(doc, text) ==
    IF doc = EmptyDocument THEN insertText(doc, text)
    ELSE insertText(Append(doc, <<>>), text)

\* The erase command a parseText call performed, on the document
ApplyErase(doc, erase) ==
    IF erase = "line" THEN ClearCurrentLine(doc)
    ELSE IF erase = "screen" THEN ClearScreen(doc)
    ELSE doc

RECURSIVE accumulate(_)
accumulate(formattedText) ==
    IF formattedText = <<>> THEN <<>>
    ELSE formattedText[1].text \o accumulate(Tail(formattedText))

----------------------------------------------------------------------------
(* Terminal. A terminal state t is the record of the widget's fields.       *)

ProcessedBugScopeLeftOpen(t, r) ==
    [cleanLine |-> accumulate(r.out),
     handler |-> r.h,
     document |-> ApplyErase(t.document, r.erase),
     parsed |-> r]

\* The rest of Terminal::vt100Processing, from the vector r.out parseText
\* returned: the text to insert, the handler and the document afterwards
Processed(t, r) ==
    [cleanLine |-> accumulate(r.out),
     handler |-> endFormatScope(r.h),
     document |-> ApplyErase(t.document, r.erase),
     parsed |-> r]

\* Terminal::vt100Processing
vt100Processing(t, data, ub) ==
    Processed(t, parseText(t.handler, FormattedText(data, DefaultFormat), ub))

\* m_textEdit.fontMetrics().height(), in pixels
FontHeight == 2

\* qRound of the quotient n / d of a non-negative n and a positive d, the
\* division being one of qreals: the nearest integer, a half rounded up
qRound(n, d) == (2 * n + d) \div (2 * d)

\* The calls scrollToBottom makes on the vertical scroll bar
BarCalls(maximum, value) ==
    << [op |-> "setMinimum", v |-> 0], [op |-> "setMaximum", v |-> maximum],
       [op |-> "setValue", v |-> value] >>

ScrolledTo(t, lineCount, visibleLines) ==
    IF visibleLines <= 0 THEN t
    ELSE IF lineCount > visibleLines
      THEN [t EXCEPT !.scroll = BarCalls(lineCount, lineCount - visibleLines + 2)]
    ELSE [t EXCEPT !.scroll = BarCalls(lineCount, 0)]

\* Terminal::scrollToBottom
scrollToBottom(t) == ScrolledTo(t, Len(t.document), qRound(t.height, FontHeight))

\* if (autoscroll()) scrollToBottom();
Autoscrolled(t) == IF t.autoscroll THEN scrollToBottom(t) ELSE t

\* The document doc1 an insertion made, cut to the maximum block count, and
\* the scroll after it
Trimmed(t, doc1) ==
    Autoscrolled(
        [t EXCEPT !.document = ensureMaximumBlockCount(doc1, t.maximumBlockCount),
                  !.trimmed = Len(doc1) - Len(ensureMaximumBlockCount(doc1, t.maximumBlockCount)),
                  !.out = <<>>, !.erase = "none", !.textChanged = TRUE])

\* Terminal::addText with VT-100 emulation, from what vt100Processing gave
AddProcessed(t, v) ==
    [Trimmed(t, insertText(v.document, v.cleanLine)) EXCEPT
        !.handler = v.handler,
        !.out = v.parsed.out,
        !.erase = v.parsed.erase,
        !.aborted = v.parsed.aborted]

addTextBugAlwaysParse(t, text, enableVt100, ub) ==
    AddProcessed(t, vt100Processing(t, text, ub))

\* Terminal::addText
addText(t, text, enableVt100, ub) ==
    IF enableVt100 THEN AddProcessed(t, vt100Processing(t, text, ub))
    ELSE Trimmed(t, insertText(t.document, text))

TerminalInsertTextBugEnabledIgnored(t, text, enabled, enableVt100, ub) ==
    addText(t, text, enableVt100, ub)

\* Terminal::insertText, with widgetEnabled() and vt100emulation() as they are
TerminalInsertText(t, text, enabled, enableVt100, ub) ==
    IF enabled THEN addText(t, text, enableVt100, ub) ELSE t

\* Terminal::append
append(t, text) == Trimmed(t, appendPlainText(t.document, text))

\* Terminal::setText
setText(t, text) == Trimmed(t, insertText(EmptyDocument, text))

\* Terminal::setAutoscroll
setAutoscroll(t, enabled) ==
    IF enabled THEN scrollToBottom([t EXCEPT !.autoscroll = TRUE])
    ELSE [t EXCEPT !.autoscroll = FALSE]

\* Terminal::clear
clear(t) ==
    [t EXCEPT !.document = EmptyDocument, !.trimmed = 0, !.out = <<>>, !.erase = "none",
              !.textChanged = TRUE]

setMaximumBlockCountBugNoTrim(t, maxBlockCount) ==
    [t EXCEPT !.maximumBlockCount = maxBlockCount, !.trimmed = 0, !.out = <<>>,
              !.erase = "none"]

\* Terminal::setMaximumBlockCount: the document is cut to the new limit at once
setMaximumBlockCount(t, maxBlockCount) ==
    [t EXCEPT !.maximumBlockCount = maxBlockCount,
              !.document = ensureMaximumBlockCount(t.document, maxBlockCount),
              !.trimmed = Len(t.document) - Len(ensureMaximumBlockCount(t.document, maxBlockCount)),
              !.out = <<>>, !.erase = "none"]

----------------------------------------------------------------------------
(* Bounds and inputs                                                        *)

MaxBlocks == 3      \* blocks a document may reach
MaxChars == 4       \* characters a document may reach
MaxPending == 4     \* characters m_pendingText may reach

CSI(body) == escape \o body

EraseLine == CSI(<<"2", "K">>)
EraseScreen == CSI(<<"2", "J">>)

\* What an out-of-range read yields: the abort, or the value read
UbReads == {UbAbort, 0}

\* The outcomes of the reads a call makes: one when every read is in range
UbChoices(h, input) == IF parseText(h, input, 0).fault THEN UbReads ELSE {0}

\* The chunks the console delivers to Terminal::insertText
TerminalChunks ==
    { <<"a">>, <<"a", NL>>,
      EraseLine, EraseScreen,
      <<"a">> \o EraseLine,
      EraseScreen \o <<"2", "k">> }

\* The texts given to append and setText
Texts == { <<>>, <<"a">>, <<"a", NL, "a">> }

BlockLimits == {-1, 0, 1, 2}

RECURSIVE CharCount(_)
CharCount(doc) == IF doc = <<>> THEN 0 ELSE Len(doc[1]) + CharCount(Tail(doc))

DocWithin(doc) == Len(doc) <= MaxBlocks /\ CharCount(doc) <= MaxChars

NoCall == [op |-> "none"]

\* The terminal state the operations take
Term ==
    [handler |-> m_escapeCodeHandler, document |-> document,
     maximumBlockCount |-> maximumBlockCount,
     autoscroll |-> m_autoscroll, height |-> height,
     trimmed |-> 0, out |-> <<>>, erase |-> "none", scroll |-> <<>>,
     textChanged |-> FALSE, aborted |-> FALSE]

----------------------------------------------------------------------------
(* The terminal: chunks arrive, the owner appends, replaces, clears and     *)
(* configures                                                               *)

Init ==
    /\ m_escapeCodeHandler = HandlerInit
    /\ document = EmptyDocument
    /\ maximumBlockCount = 0
    /\ m_emulateVt100 = FALSE
    /\ widgetEnabled = TRUE
    /\ m_autoscroll = TRUE
    /\ height = 0
    /\ crashed = FALSE
    /\ call = NoCall
    /\ arg = <<>>

\* The call just made, as the claims read it
Made(op, text, t2) ==
    [op |-> op, text |-> text, vt100 |-> m_emulateVt100, enabled |-> widgetEnabled,
     preHandler |-> m_escapeCodeHandler, preDocument |-> document,
     autoscroll |-> m_autoscroll, height |-> height,
     out |-> t2.out, erase |-> t2.erase, trimmed |-> t2.trimmed, scroll |-> t2.scroll,
     textChanged |-> t2.textChanged]

Becomes(t2) ==
    /\ m_escapeCodeHandler' = t2.handler
    /\ document' = t2.document
    /\ maximumBlockCount' = t2.maximumBlockCount
    /\ m_autoscroll' = t2.autoscroll
    /\ crashed' = t2.aborted

\* The operation op has taken the terminal to t2
Called(op, text, t2) ==
    /\ DocWithin(t2.document)
    /\ Len(t2.handler.m_pendingText) <= MaxPending
    /\ Becomes(t2)
    /\ call' = Made(op, text, t2)
    /\ UNCHANGED <<m_emulateVt100, widgetEnabled, height, arg>>

\* Terminal::insertText (the slot of IO::Console::stringReceived)
CallInsertText ==
    \E text \in TerminalChunks :
      \E ub \in UbChoices(m_escapeCodeHandler, FormattedText(text, DefaultFormat)) :
        /\ ~crashed
        /\ Called("insertText", text,
                  TerminalInsertText(Term, text, widgetEnabled, m_emulateVt100, ub))

CallAppend ==
    \E text \in Texts :
        /\ ~crashed
        /\ Called("append", text, append(Term, text))

CallSetText ==
    \E text \in Texts :
        /\ ~crashed
        /\ Called("setText", text, setText(Term, text))

CallClear ==
    /\ ~crashed
    /\ Called("clear", <<>>, clear(Term))

CallSetMaximumBlockCount ==
    \E n \in BlockLimits :
        /\ ~crashed
        /\ Called("setMaximumBlockCount", <<>>, setMaximumBlockCount(Term, n))

\* Terminal::setVt100Emulation
CallSetVt100Emulation ==
    \E enabled \in BOOLEAN :
        /\ ~crashed
        /\ m_emulateVt100' = enabled
        /\ call' = [op |-> "setVt100Emulation"]
        /\ UNCHANGED <<m_escapeCodeHandler, document, maximumBlockCount, widgetEnabled,
                       m_autoscroll, height,
                       crashed, arg>>

\* Terminal::setWidgetEnabled
CallSetWidgetEnabled ==
    \E enabled \in BOOLEAN :
        /\ ~crashed
        /\ widgetEnabled' = enabled
        /\ call' = [op |-> "setWidgetEnabled"]
        /\ UNCHANGED <<m_escapeCodeHandler, document, maximumBlockCount, m_emulateVt100,
                       m_autoscroll, height,
                       crashed, arg>>

Next ==
    \/ CallInsertText
    \/ CallAppend
    \/ CallSetText
    \/ CallClear
    \/ CallSetMaximumBlockCount
    \/ CallSetVt100Emulation
    \/ CallSetWidgetEnabled

Spec == Init /\ [][Next]_vars

----------------------------------------------------------------------------
(* The scroll bar: text arrives and is appended and replaced while the      *)
(* item is resized and automatic scrolling is switched                      *)

\* The heights the item is given, in pixels
Heights == {0, 1, 2, 3, 4}

InitScroll == Init

\* Terminal::setAutoscroll
CallSetAutoscroll ==
    \E enabled \in BOOLEAN :
        /\ ~crashed
        /\ Called("setAutoscroll", <<>>, setAutoscroll(Term, enabled))

\* The scene gives the item another height
Resize ==
    \E h \in Heights :
        /\ ~crashed
        /\ height' = h
        /\ call' = [op |-> "resize"]
        /\ UNCHANGED <<m_escapeCodeHandler, document, maximumBlockCount, m_emulateVt100,
                       widgetEnabled, m_autoscroll, crashed, arg>>

NextScroll ==
    \/ CallInsertText
    \/ CallAppend
    \/ CallSetText
    \/ CallSetAutoscroll
    \/ Resize

SpecScroll == InitScroll /\ [][NextScroll]_vars

----------------------------------------------------------------------------
(* The terminal's decoder: chunks with colour sequences arrive while the    *)
(* emulation is switched                                                    *)

\* The chunks the console delivers, colour sequences among them
StyledChunks ==
    { <<"a">>, <<"a", NL>>, CSI(<<"3", "1", "m">>), CSI(<<"1", "m", "a">>) }

InitStyled == Init

\* Terminal::insertText (the slot of IO::Console::stringReceived)
CallInsertStyled ==
    \E text \in StyledChunks :
      \E ub \in UbChoices(m_escapeCodeHandler, FormattedText(text, DefaultFormat)) :
        /\ ~crashed
        /\ Called("insertText", text,
                  TerminalInsertText(Term, text, widgetEnabled, m_emulateVt100, ub))

NextStyled == CallInsertStyled \/ CallSetVt100Emulation

SpecStyled == InitStyled /\ [][NextStyled]_vars

----------------------------------------------------------------------------
(* The decoder alone: parseText is called with chunks and baseline formats, *)
(* endFormatScope between calls or not                                      *)

\* A baseline other than the default one
ThemeFormat ==
    [foreground |-> <<10, 20, 30>>, background |-> <<0, 0, 0>>, fontWeight |-> "Normal"]

BaseFormats == {DefaultFormat, ThemeFormat}

DecoderChunks ==
    { <<>>, <<"a", "b">>, <<"2", "K">>,
      CSI(<<"3", "1", "m">>), CSI(<<"0", "m">>),
      EraseLine,
      <<ESC>>, CSI(<<"3">>),
      <<ESC, "]">>, <<BEL>>,
      CSI(<<"3", "8", ";", "5", "m">>), CSI(<<"4", "8", ";", "5", "m">>),
      CSI(<<"3", "8", "m">>), CSI(<<"3", "8", ";", "2", ";", "1", "m">>),
      <<"a">> \o CSI(<<"K", "b">>),
      CSI(<<"5", "A">>), CSI(<<";", "H">>),
      CSI(<<"4", ";", "3", "1", "m", "X">>),
      CSI(<<"1", ";", "4", "2", "9", "4", "9", "6", "7", "2", "9", "6", "m", "X">>),
      CSI(<<"3", "1", "m", "a", "b", "2", "K", "c", "d">>),
      EraseLine \o <<"a", "b">> }

InitDecoder == Init

\* A parseText call has returned r
Parsed(text, format, r) ==
    /\ Len(r.h.m_pendingText) <= MaxPending
    /\ m_escapeCodeHandler' = r.h
    /\ document' = ApplyErase(document, r.erase)
    /\ crashed' = r.aborted
    /\ call' = [op |-> "parseText", text |-> text, format |-> format,
                preHandler |-> m_escapeCodeHandler,
                out |-> r.out, erase |-> r.erase, fault |-> r.fault,
                aborted |-> r.aborted, stalled |-> r.stalled,
                charFormat |-> r.charFormat]
    /\ UNCHANGED <<maximumBlockCount, m_emulateVt100, widgetEnabled, m_autoscroll, height, arg>>

\* AnsiEscapeCodeHandler::parseText
CallParseText ==
    \E text \in DecoderChunks, format \in BaseFormats :
      \E ub \in UbChoices(m_escapeCodeHandler, FormattedText(text, format)) :
        /\ ~crashed
        /\ Parsed(text, format,
                  parseText(m_escapeCodeHandler, FormattedText(text, format), ub))

\* AnsiEscapeCodeHandler::endFormatScope
CallEndFormatScope ==
    /\ ~crashed
    /\ m_escapeCodeHandler' = endFormatScope(m_escapeCodeHandler)
    /\ call' = [op |-> "endFormatScope"]
    /\ UNCHANGED <<document, maximumBlockCount, m_emulateVt100, widgetEnabled, m_autoscroll,
                   height, crashed, arg>>

NextDecoder == CallParseText \/ CallEndFormatScope

SpecDecoder == InitDecoder /\ [][NextDecoder]_vars

----------------------------------------------------------------------------
(* The colour codes: one SGR sequence with the parameters arg and a text    *)
(* after it is fed to a decoder, then a reset and a second text             *)

DigitChar(d) ==
    CASE d = 0 -> "0" [] d = 1 -> "1" [] d = 2 -> "2" [] d = 3 -> "3"
      [] d = 4 -> "4" [] d = 5 -> "5" [] d = 6 -> "6" [] d = 7 -> "7"
      [] d = 8 -> "8" [] d = 9 -> "9"

\* The decimal digits of n, as a sender writes them
RECURSIVE Decimal(_)
Decimal(n) == IF n < 10 THEN <<DigitChar(n)>> ELSE Append(Decimal(n \div 10), DigitChar(n % 10))

RECURSIVE Parameters(_)
Parameters(ps) ==
    IF ps = <<>> THEN <<>>
    ELSE IF Len(ps) = 1 THEN Decimal(ps[1])
    ELSE Decimal(ps[1]) \o <<semicolon>> \o Parameters(Tail(ps))

\* ESC [ p1 ; p2 ; ... m
SGR(ps) == CSI(Parameters(ps) \o <<colorTerminator>>)

RED == <<"R", "E", "D">>
plain == <<"p", "l", "a", "i", "n">>

RgbSamples == {0, 1, 30, 255}

BasicArgs == {<<c>> : c \in (30..37) \cup (40..47)}

RgbArgs ==
    {<<t, 2, r, g, b>> \o tail :
        t \in {RgbTextColor, RgbBackgroundColor}, r \in RgbSamples, g \in RgbSamples,
        b \in RgbSamples, tail \in {<<>>, <<1>>}}

PaletteArgs == {<<t, 5, n>> : t \in {RgbTextColor, RgbBackgroundColor}, n \in 0..255}

\* One parameter group that sets the format: reset, bold, a basic colour,
\* a default colour, a palette colour, an RGB colour
StyleUnits ==
    { <<ResetFormat>>, <<BoldText>>, <<31>>, <<DefaultTextColor>>, <<42>>,
      <<DefaultBackgroundColor>>, <<RgbTextColor, 5, 9>>, <<RgbBackgroundColor, 2, 0, 1, 30>> }

\* No parameter, one group, or two groups in one sequence
ResetArgs == {<<>>} \cup StyleUnits \cup {u1 \o u2 : u1 \in StyleUnits, u2 \in StyleUnits}

\* A decoder a previous call left with an open bold format
CarryingHandler ==
    setFormatScope(HandlerInit, [ThemeFormat EXCEPT !.fontWeight = "Bold"])

InitColour ==
    /\ m_escapeCodeHandler \in {HandlerInit, CarryingHandler}
    /\ document = EmptyDocument
    /\ maximumBlockCount = 0
    /\ m_emulateVt100 = FALSE
    /\ widgetEnabled = TRUE
    /\ m_autoscroll = TRUE
    /\ height = 0
    /\ crashed = FALSE
    /\ call = NoCall
    /\ arg \in BasicArgs \cup RgbArgs \cup PaletteArgs \cup ResetArgs

ParseCall(step, text, format, r) ==
    [op |-> "parseText", step |-> step, text |-> text, format |-> format,
     preHandler |-> m_escapeCodeHandler, postHandler |-> r.h,
     out |-> r.out, erase |-> r.erase, fault |-> r.fault]

\* parseText on text, as the call number step
Feed(step, text, format, r) ==
    /\ m_escapeCodeHandler' = r.h
    /\ call' = ParseCall(step, text, format, r)
    /\ UNCHANGED <<document, maximumBlockCount, m_emulateVt100, widgetEnabled, m_autoscroll,
                   height, crashed, arg>>

FeedText(step, text, format) ==
    Feed(step, text, format, parseText(m_escapeCodeHandler, FormattedText(text, format), 0))

\* parseText on the sequence and the text after it
FeedSequence ==
    \E format \in BaseFormats :
        /\ call = NoCall
        /\ FeedText(1, SGR(arg) \o (IF arg \in BasicArgs THEN RED ELSE <<"X">>), format)

\* endFormatScope after the call, as Terminal::vt100Processing does
EndScope ==
    /\ call # NoCall
    /\ ~m_escapeCodeHandler.m_previousFormatClosed
    /\ m_escapeCodeHandler' = endFormatScope(m_escapeCodeHandler)
    /\ UNCHANGED <<document, maximumBlockCount, m_emulateVt100, widgetEnabled, m_autoscroll,
                   height, crashed, call, arg>>

\* parseText on a reset and the text after it
FeedReset ==
    \E format \in BaseFormats :
        /\ call # NoCall
        /\ call.step = 1
        /\ arg \in BasicArgs
        /\ FeedText(2, SGR(<<ResetFormat>>) \o plain, format)

NextColour == FeedSequence \/ EndScope \/ FeedReset

SpecColour == InitColour /\ [][NextColour]_vars

----------------------------------------------------------------------------
(* A stream of characters, arg, reaches a decoder in chunks of any lengths  *)

\* The characters that begin a sequence with a string argument
StringIntroducers == {"]", "P", "X", "^", "_"}

\* ESC \ for all of them, the bell for ESC ] as well
Terminators(k) == {<<ESC, "\\">>} \cup (IF k = "]" THEN {<<BEL>>} ELSE {})

\* Arguments without a terminator in them
Payloads(k) ==
    {<<>>, <<"a">>} \cup (IF k = "]" THEN {} ELSE {<<BEL>>, <<BEL, "a">>})

\* A string sequence with its terminator, and the text after it
TerminatedStreams ==
    UNION { {<<ESC, k>> \o payload \o t \o rest :
                payload \in Payloads(k), t \in Terminators(k), rest \in {<<>>, <<"b">>}} :
            k \in StringIntroducers }

\* A string sequence that never ends
UnterminatedStreams ==
    UNION { {<<ESC, k>> \o payload \o rest :
                payload \in Payloads(k), rest \in {<<"b", "c">>, <<"b", ESC>>}} :
            k \in StringIntroducers }

\* ESC ] a BEL b ESC \ c
BothTerminators == <<ESC, "]", "a", BEL, "b", ESC, "\\", "c">>

\* ESC N, ESC O, ESC \ with a text around them
TwoCharStreams ==
    {before \o <<ESC, c>> \o rest :
        before \in {<<>>, <<"a">>}, c \in {"N", "O", "\\"}, rest \in {<<>>, <<"b">>}}

\* ESC before a character that begins no sequence
FailOpenStreams ==
    {before \o <<ESC, c>> \o rest :
        before \in {<<>>, <<"a">>}, c \in {"c", "Q", NL, "m"}, rest \in {<<>>, <<"b">>}}

Streams ==
    TerminatedStreams \cup UnterminatedStreams \cup {BothTerminators}
        \cup TwoCharStreams \cup FailOpenStreams

InitStream ==
    /\ m_escapeCodeHandler \in {HandlerInit, CarryingHandler}
    /\ document = EmptyDocument
    /\ maximumBlockCount = 0
    /\ m_emulateVt100 = FALSE
    /\ widgetEnabled = TRUE
    /\ m_autoscroll = TRUE
    /\ height = 0
    /\ crashed = FALSE
    /\ call = [op |-> "none", fed |-> 0, runs |-> <<>>,
               handler |-> m_escapeCodeHandler]
    /\ arg \in Streams

\* A parseText call on the next characters of the stream has returned r;
\* call.fed counts the characters fed, call.runs collects the runs of all
\* the calls, call.handler is the decoder the stream began with
Streamed(text, format, r) ==
    /\ m_escapeCodeHandler' = r.h
    /\ document' = ApplyErase(document, r.erase)
    /\ crashed' = r.aborted
    /\ call' = [op |-> "parseText", text |-> text, format |-> format,
                preHandler |-> m_escapeCodeHandler,
                out |-> r.out, erase |-> r.erase, fault |-> r.fault,
                fed |-> call.fed + Len(text), runs |-> call.runs \o r.out,
                handler |-> call.handler]
    /\ UNCHANGED <<maximumBlockCount, m_emulateVt100, widgetEnabled, m_autoscroll, height, arg>>

FeedNext(text, format) ==
    \E ub \in UbChoices(m_escapeCodeHandler, FormattedText(text, format)) :
        Streamed(text, format, parseText(m_escapeCodeHandler, FormattedText(text, format), ub))

\* AnsiEscapeCodeHandler::parseText on the next n characters
FeedChunk ==
    /\ ~crashed
    /\ \E n \in 1..(Len(arg) - call.fed) :
           FeedNext(SubSeq(arg, call.fed + 1, call.fed + n), ThemeFormat)

NextStream == FeedChunk

SpecStream == InitStream /\ [][NextStream]_vars

----------------------------------------------------------------------------
(* Claims                                                                   *)

Idle(h) == h.m_pendingText = <<>> /\ ~h.m_waitingForTerminator

\* The escape sequences the decoder supports, whole
SupportedSequences ==
    { SGR(<<31>>), SGR(<<0, 1>>), EraseLine, EraseScreen,
      <<ESC, "N">>, <<ESC, "O">>, <<ESC, "\\">>,
      <<ESC, "]", "a", BEL>>, <<ESC, "]", "a", ESC, "\\">>,
      <<ESC, "P", "a", ESC, "\\">>, <<ESC, "X", ESC, "\\">>,
      <<ESC, "^", ESC, "\\">>, <<ESC, "_", ESC, "\\">> }

\* The events of one call in the order they take effect: the erase command
\* it performed, then the text runs it returned
Events(r) ==
    (IF r.erase = "none" THEN <<>> ELSE <<[kind |-> r.erase, text |-> <<>>, format |-> DefaultFormat]>>)
    \o [i \in 1..Len(r.out) |-> [kind |-> "text", text |-> r.out[i].text, format |-> r.out[i].format]]

\* Adjacent text runs of one format joined, so that where a chunk ends
\* does not show in the events
RECURSIVE Joined(_)
Joined(es) ==
    IF Len(es) < 2 THEN es
    ELSE IF es[1].kind = "text" /\ es[2].kind = "text" /\ es[1].format = es[2].format
        THEN Joined(<<[es[1] EXCEPT !.text = @ \o es[2].text]>> \o SubSeq(es, 3, Len(es)))
    ELSE <<es[1]>> \o Joined(Tail(es))

FedWhole(h, q, format) ==
    LET r == parseText(h, FormattedText(q, format), 0)
    IN  [events |-> Joined(Events(r)), h |-> r.h]

FedSplit(h, q, k, format) ==
    LET r1 == parseText(h, FormattedText(SubSeq(q, 1, k), format), 0)
        r2 == parseText(r1.h, FormattedText(SubSeq(q, k + 1, Len(q)), format), 0)
    IN  [events |-> Joined(Events(r1) \o Events(r2)), h |-> r2.h]

\* C1: a supported escape sequence fed in two parts, split at any offset
\* inside it, gives the events and the decoder state of the sequence fed
\* whole, from whatever state the decoder is in.
ChunkingEquivalence ==
    ~crashed =>
        \A q \in SupportedSequences, format \in BaseFormats :
            \A k \in 1..(Len(q) - 1) :
                FedSplit(m_escapeCodeHandler, q, k, format)
                    = FedWhole(m_escapeCodeHandler, q, format)

\* C2: a non-empty chunk without ESC, given to a decoder with no pending
\* text, not waiting and with its format closed, comes back as one run, the
\* chunk itself in the caller's format, and the decoder is as before.
PlainTextPassesThrough ==
    (/\ call.op = "parseText"
     /\ call.text # <<>>
     /\ ~contains(call.text, <<ESC>>)
     /\ Idle(call.preHandler)
     /\ call.preHandler.m_previousFormatClosed)
    => /\ call.out = <<FormattedText(call.text, call.format)>>
       /\ m_escapeCodeHandler = call.preHandler

PlainTextPassed ==
    /\ call.op = "parseText"
    /\ call.text = <<"2", "K">>
    /\ call.format = ThemeFormat
    /\ Idle(call.preHandler)
    /\ call.preHandler.m_previousFormatClosed
    /\ call.preHandler.m_previousFormat # ThemeFormat
    /\ call.out = <<FormattedText(<<"2", "K">>, ThemeFormat)>>

\* C3: no call reads outside the parameter list or the text buffer.
NeverFails == call.op = "parseText" => ~call.fault

\* C4: an erase-line sequence on a document of two or more blocks whose last
\* block has content keeps the block count and every other block, and
\* leaves the last block empty.
EraseLineClearsLastBlock ==
    (/\ call.op = "insertText"
     /\ call.enabled
     /\ call.vt100
     /\ call.text = EraseLine
     /\ call.erase = "line"
     /\ Len(call.preDocument) >= 2
     /\ call.preDocument[Len(call.preDocument)] # <<>>)
    => /\ Len(document) = Len(call.preDocument)
       /\ \A i \in 1..(Len(document) - 1) : document[i] = call.preDocument[i]
       /\ document[Len(document)] = <<>>

\* C5: a chunk containing the erase-screen sequence, inserted with VT-100
\* emulation on, leaves a document of one empty block and returns no text run.
EraseScreenResetsDocument ==
    (/\ call.op = "insertText"
     /\ call.enabled
     /\ call.vt100
     /\ contains(call.text, EraseScreen))
    => /\ document = EmptyDocument
       /\ call.out = <<>>

\* C6: text followed by an erase-line sequence in one chunk gives the
\* document that the text and the sequence give as two chunks in that order.
EventsInStreamOrder ==
    (/\ call.op = "insertText"
     /\ call.enabled
     /\ call.vt100
     /\ call.text = <<"a">> \o EraseLine
     /\ Idle(call.preHandler))
    => LET t0 == [Term EXCEPT !.handler = call.preHandler, !.document = call.preDocument]
           t1 == addText(t0, <<"a">>, TRUE, 0)
           t2 == addText(t1, EraseLine, TRUE, 0)
       IN  document = t2.document

\* The format a call starts its text with
StartFormat(c) ==
    IF c.preHandler.m_previousFormatClosed THEN c.format ELSE c.preHandler.m_previousFormat

\* The low-intensity palette as the specification tabulates it: red on
\* bit 0, green on bit 1, blue on bit 2
LowIntensity ==
    << <<0, 0, 0>>, <<170, 0, 0>>, <<0, 170, 0>>, <<170, 170, 0>>,
       <<0, 0, 170>>, <<170, 0, 170>>, <<0, 170, 170>>, <<170, 170, 170>> >>

\* C7: text after ESC[<c>m has the palette colour of c - 30 as foreground
\* for c in 30..37, of c - 40 as background for c in 40..47; text after a
\* later ESC[0m has the baseline format of its call; each call gives one run.
BasicColoursAndReset ==
    (call.op = "parseText" /\ arg \in BasicArgs) =>
        /\ (call.step = 1 /\ arg[1] \in 30..37) =>
               call.out = <<FormattedText(RED,
                   [StartFormat(call) EXCEPT !.foreground = LowIntensity[arg[1] - 30 + 1]])>>
        /\ (call.step = 1 /\ arg[1] \in 40..47) =>
               call.out = <<FormattedText(RED,
                   [StartFormat(call) EXCEPT !.background = LowIntensity[arg[1] - 40 + 1]])>>
        /\ call.step = 2 => call.out = <<FormattedText(plain, call.format)>>

\* ESC[31mRED has been fed, its format carried into the next call, and
\* ESC[0mplain came back in the baseline of that call
RedThenPlain ==
    /\ call.op = "parseText"
    /\ call.step = 2
    /\ arg = <<31>>
    /\ ~call.preHandler.m_previousFormatClosed
    /\ call.preHandler.m_previousFormat.foreground = <<170, 0, 0>>
    /\ call.format = ThemeFormat
    /\ call.out = <<FormattedText(plain, ThemeFormat)>>

\* C8: ESC[38;2;r;g;bmX gives the run X with foreground <<r, g, b>>,
\* ESC[48;2;r;g;bmX with that background; the mode and the three channels
\* are not applied as codes, and a parameter after them is.
ExtendedRgbColour ==
    (call.op = "parseText" /\ arg \in RgbArgs) =>
        LET rgb == <<arg[3], arg[4], arg[5]>>
            start == StartFormat(call)
            coloured == IF arg[1] = 38 THEN [start EXCEPT !.foreground = rgb]
                                       ELSE [start EXCEPT !.background = rgb]
            expected == IF Len(arg) = 6 THEN [coloured EXCEPT !.fontWeight = "Bold"]
                                        ELSE coloured
        IN  call.out = <<FormattedText(<<"X">>, expected)>>

\* A channel of 1 and a channel of 30 were sent, from a format that is not bold
RgbWithCodeLikeChannels ==
    /\ call.op = "parseText"
    /\ arg = <<38, 2, 1, 30, 255>>
    /\ StartFormat(call) = DefaultFormat
    /\ call.out[1].format = [DefaultFormat EXCEPT !.foreground = <<1, 30, 255>>]

Clamp255(x) == IF x > 255 THEN 255 ELSE x

\* The 256-colour palette as the specification gives it
PaletteColour(n) ==
    IF n <= 7 THEN LowIntensity[n + 1]
    ELSE IF n <= 15
        THEN LET c == LowIntensity[n - 8 + 1]
             IN  <<Clamp255((c[1] * 3) \div 2), Clamp255((c[2] * 3) \div 2),
                   Clamp255((c[3] * 3) \div 2)>>
    ELSE IF n <= 231
        THEN <<((n - 16) \div 36) * 51, (((n - 16) \div 6) % 6) * 51, ((n - 16) % 6) * 51>>
    ELSE <<(n - 232) * 11, (n - 232) * 11, (n - 232) * 11>>

\* C9: ESC[38;5;<n>m sets the foreground, ESC[48;5;<n>m the background, to
\* the palette colour of n, for n in 0..255; every channel is in 0..255.
PaletteMapping ==
    (call.op = "parseText" /\ arg \in PaletteArgs) =>
        LET colour == PaletteColour(arg[3])
            start == StartFormat(call)
        IN  /\ \A i \in 1..3 : colour[i] \in 0..255
            /\ call.out = <<FormattedText(<<"X">>,
                   IF arg[1] = 38 THEN [start EXCEPT !.foreground = colour]
                                  ELSE [start EXCEPT !.background = colour])>>

\* Index 110 of the colour cube was sent as a background
PaletteCubeSent ==
    /\ call.op = "parseText"
    /\ arg = <<48, 5, 110>>
    /\ call.out[1].format.background = <<102, 153, 204>>

TrimmingCalls == {"insertText", "append", "setText", "clear", "setMaximumBlockCount"}

\* C10: while the maximum block count is positive the document has at most
\* that many blocks; while it is zero or negative no operation trims a block.
BoundedScrollback ==
    /\ maximumBlockCount > 0 => Len(document) <= maximumBlockCount
    /\ (maximumBlockCount <= 0 /\ call.op \in TrimmingCalls) => call.trimmed = 0

\* An insertion into a full document has trimmed it
ScrollbackTrimmed ==
    /\ call.op = "insertText"
    /\ maximumBlockCount = 2
    /\ Len(call.preDocument) = 2
    /\ call.trimmed > 0
    /\ Len(document) = 2

\* The document of the call just made as the insertion left it, before
\* any block was trimmed
Untrimmed ==
    IF call.op = "insertText"
      THEN IF call.vt100
             THEN insertText(ApplyErase(call.preDocument, call.erase), accumulate(call.out))
             ELSE insertText(call.preDocument, call.text)
    ELSE IF call.op = "append" THEN appendPlainText(call.preDocument, call.text)
    ELSE insertText(EmptyDocument, call.text)

\* C11: when an insertion takes the block count over a positive maximum N,
\* the document is the last N blocks the insertion left, in their order.
FifoEviction ==
    (/\ call.op \in {"insertText", "append", "setText"}
     /\ call.enabled
     /\ maximumBlockCount > 0
     /\ Len(Untrimmed) > maximumBlockCount)
    => /\ Len(document) = maximumBlockCount
       /\ \A i \in 1..maximumBlockCount :
              document[i] = Untrimmed[Len(Untrimmed) - maximumBlockCount + i]

\* An insertion went over a maximum of 2 and the oldest block, which
\* differs from the newest, is the one that went
OldestBlockEvicted ==
    /\ call.op = "insertText"
    /\ call.enabled
    /\ maximumBlockCount = 2
    /\ Len(Untrimmed) = 3
    /\ Untrimmed[1] # Untrimmed[3]
    /\ document = SubSeq(Untrimmed, 2, 3)

\* The characters of a document: its blocks, a line feed between them
RECURSIVE Characters(_)
Characters(doc) ==
    IF Len(doc) = 1 THEN doc[1]
    ELSE doc[1] \o <<NL>> \o Characters(Tail(doc))

\* s ends with t
EndsWith(s, t) == Len(t) <= Len(s) /\ SubSeq(s, Len(s) - Len(t) + 1, Len(s)) = t

\* C12: without VT-100 emulation a received text goes to the end of the
\* document character for character, no text run comes from the decoder and
\* the decoder's fields stay as they were.
EmulationSwitch ==
    (/\ call.op = "insertText"
     /\ call.enabled
     /\ ~call.vt100)
    => /\ m_escapeCodeHandler = call.preHandler
       /\ call.out = <<>>
       /\ call.erase = "none"
       /\ EndsWith(Characters(call.preDocument) \o call.text, Characters(document))
       /\ call.trimmed = 0 => Characters(document) = Characters(call.preDocument) \o call.text

\* An erase sequence was received without emulation and is in the document,
\* ESC included, while the decoder still holds what an earlier chunk left
EscapeInsertedLiterally ==
    /\ call.op = "insertText"
    /\ call.enabled
    /\ ~call.vt100
    /\ call.text = EraseLine
    /\ call.preHandler.m_pendingText # <<>>
    /\ m_escapeCodeHandler = call.preHandler
    /\ document = <<EraseLine>>

\* C13: no text run a call returns has an empty text, whatever the chunk
\* and the state of the decoder.
NoEmptyTextRuns ==
    call.op = "parseText" => \A i \in 1..Len(call.out) : call.out[i].text # <<>>

\* The empty chunk was given to a decoder holding the start of a sequence:
\* no run came back
OnlySequencesFed ==
    /\ call.op = "parseText"
    /\ call.text = <<>>
    /\ call.preHandler.m_pendingText = CSI(<<"3">>)
    /\ call.out = <<>>

\* C14: no two adjacent text runs of one returned vector have the same
\* format: text on both sides of a sequence that leaves the format alone
\* comes back as one run.
Coalescing ==
    call.op = "parseText" =>
        \A i \in 1..(Len(call.out) - 1) : call.out[i].format # call.out[i + 1].format

\* C15: every call returns, and every iteration of its loops begins with a
\* shorter text than the iteration before it or leaves its loop.
Termination ==
    call.op = "parseText" => ~call.aborted /\ ~call.stalled

\* CSI sequences that end in another character than 'm' and are no erase
\* command
UnsupportedSequences == {CSI(<<"5", "A">>), CSI(<<";", "H">>)}

\* C16: an unsupported CSI sequence given to an idle decoder gives no text
\* run and no erase command, and leaves no pending text.
UnsupportedCsiVanishes ==
    (/\ call.op = "parseText"
     /\ call.text \in UnsupportedSequences
     /\ Idle(call.preHandler))
    => /\ call.out = <<>>
       /\ call.erase = "none"
       /\ m_escapeCodeHandler.m_pendingText = <<>>

\* ESC[4;31mX: an unknown code before a red foreground
UnknownThenRed == CSI(<<"4", ";", "3", "1", "m", "X">>)

\* ESC[1;4294967296mX: bold, then a code of 2^32
BoldThenOversized ==
    CSI(<<"1", ";", "4", "2", "9", "4", "9", "6", "7", "2", "9", "6", "m", "X">>)

\* C17: a parameter that is no known code changes neither the format nor
\* the format-closed flag, and the other parameters of its sequence apply:
\* X after ESC[4;31m is red on the starting format, X after
\* ESC[1;4294967296m is bold on the starting format, and the format is open.
UnknownCodesIgnored ==
    (call.op = "parseText" /\ Idle(call.preHandler)) =>
        /\ call.text = UnknownThenRed =>
               /\ call.out = <<FormattedText(<<"X">>,
                      [StartFormat(call) EXCEPT !.foreground = LowIntensity[2]])>>
               /\ ~m_escapeCodeHandler.m_previousFormatClosed
        /\ call.text = BoldThenOversized =>
               /\ call.out = <<FormattedText(<<"X">>,
                      [StartFormat(call) EXCEPT !.fontWeight = "Bold"])>>
               /\ ~m_escapeCodeHandler.m_previousFormatClosed

\* ESC[31mab2Kcd: a colour sequence, then a text with the letters 2K in it
ColourThenLiteral2K == CSI(<<"3", "1", "m", "a", "b", "2", "K", "c", "d">>)

\* C18: a colour sequence followed in its chunk by a text that has 2K in it
\* erases nothing, and the text comes back, in red.
EraseOnlyBySequence ==
    (/\ call.op = "parseText"
     /\ call.text = ColourThenLiteral2K
     /\ Idle(call.preHandler))
    => /\ call.erase = "none"
       /\ call.out = <<FormattedText(<<"a", "b", "2", "K", "c", "d">>,
              [StartFormat(call) EXCEPT !.foreground = LowIntensity[2]])>>

\* C19: ESC[2K with a text after it in the chunk erases the line and gives
\* the text back as one run of the starting format; nothing stays pending.
ParsingContinuesAfterEraseLine ==
    (/\ call.op = "parseText"
     /\ call.text = EraseLine \o <<"a", "b">>
     /\ Idle(call.preHandler))
    => /\ call.erase = "line"
       /\ call.out = <<FormattedText(<<"a", "b">>, StartFormat(call))>>
       /\ m_escapeCodeHandler.m_pendingText = <<>>

\* The format one parameter group turns style into, over the baseline base
StyledBy(u, style, base) ==
    CASE u = <<0>> -> base
      [] u = <<1>> -> [style EXCEPT !.fontWeight = "Bold"]
      [] u = <<31>> -> [style EXCEPT !.foreground = LowIntensity[2]]
      [] u = <<39>> -> [style EXCEPT !.foreground = base.foreground]
      [] u = <<42>> -> [style EXCEPT !.background = LowIntensity[3]]
      [] u = <<49>> -> [style EXCEPT !.background = base.background]
      [] u = <<38, 5, 9>> -> [style EXCEPT !.foreground = PaletteColour(9)]
      [] u = <<48, 2, 0, 1, 30>> -> [style EXCEPT !.background = <<0, 1, 30>>]

\* The call gave one run of the format style, and left the format closed
\* exactly if the last group was a reset, with style carried if it was not
Settled(style, last) ==
    /\ Len(call.out) = 1
    /\ call.out[1].format = style
    /\ call.postHandler.m_previousFormatClosed = (last = <<0>>)
    /\ last # <<0>> => call.postHandler.m_previousFormat = style

\* C20: ESC[m and a parameter 0 give the baseline format of the call and
\* close the format; each of 1, 31, 39, 42, 49, 38;5;9 and 48;2;0;1;30 opens
\* it and carries the resulting format; of two groups the last one decides.
ResetAndFormatClosed ==
    (call.op = "parseText" /\ call.step = 1 /\ arg \in ResetArgs) =>
        /\ arg = <<>> =>
               /\ Len(call.out) = 1
               /\ call.out[1].format = call.format
               /\ call.postHandler.m_previousFormatClosed
        /\ \A u \in StyleUnits :
               arg = u => Settled(StyledBy(u, StartFormat(call), call.format), u)
        /\ \A u1 \in StyleUnits, u2 \in StyleUnits :
               arg = u1 \o u2 =>
                   Settled(StyledBy(u2, StyledBy(u1, StartFormat(call), call.format),
                                    call.format), u2)

\* ESC[31;0mX was fed to a decoder carrying an open bold format, over the
\* theme's baseline: X came back in the baseline and the format is closed
ResetAfterColour ==
    /\ call.op = "parseText"
    /\ call.step = 1
    /\ arg = <<31, 0>>
    /\ ~call.preHandler.m_previousFormatClosed
    /\ call.format = ThemeFormat
    /\ call.out = <<FormattedText(<<"X">>, ThemeFormat)>>
    /\ call.postHandler.m_previousFormatClosed

\* C21: the text ab given to a decoder with nothing pending comes back in
\* the format the call before it ended with when that call left the format
\* open and endFormatScope was not called since, and in the baseline of its
\* own call when the format is closed.
StyleCarriedAcrossCalls ==
    [][(/\ call'.op = "parseText"
        /\ call'.text = <<"a", "b">>
        /\ Idle(m_escapeCodeHandler))
       => /\ m_escapeCodeHandler.m_previousFormatClosed =>
                 call'.out = <<FormattedText(<<"a", "b">>, call'.format)>>
          /\ (~m_escapeCodeHandler.m_previousFormatClosed /\ call.op = "parseText") =>
                 call'.out = <<FormattedText(<<"a", "b">>, call.charFormat)>>]_vars

\* ab came back red over the theme's baseline, from a decoder that an
\* earlier call had left with an open red format
CarriedRedOverTheme ==
    /\ call.op = "parseText"
    /\ call.text = <<"a", "b">>
    /\ Idle(call.preHandler)
    /\ ~call.preHandler.m_previousFormatClosed
    /\ call.format = ThemeFormat
    /\ call.out = <<FormattedText(<<"a", "b">>,
           [DefaultFormat EXCEPT !.foreground = LowIntensity[2]])>>

\* The characters of a sequence of runs
RECURSIVE RunsText(_)
RunsText(runs) == IF runs = <<>> THEN <<>> ELSE runs[1].text \o RunsText(Tail(runs))

\* The stream is a string sequence of n characters, terminator included,
\* and a text: while the sequence is not yet fed whole no run has come back
\* and, once its first two characters are in, the decoder waits; once it is
\* fed whole the runs are the text fed after it, and the decoder is idle
SequenceDiscarded(n) ==
    /\ call.fed < n =>
           /\ call.runs = <<>>
           /\ call.fed >= 2 => m_escapeCodeHandler.m_waitingForTerminator
    /\ call.fed >= n =>
           /\ RunsText(call.runs) = SubSeq(arg, n + 1, call.fed)
           /\ Idle(m_escapeCodeHandler)

\* C22: of ESC ], ESC P, ESC X, ESC ^ or ESC _ with an argument and a
\* terminator, fed in chunks of any lengths, no character comes back in a
\* run; the bell ends the argument of ESC ] only; the text after the
\* terminator comes back, and the decoder waits no longer.
StringSequencesDiscarded ==
    call.op = "parseText" =>
        \A k \in StringIntroducers :
            \A payload \in Payloads(k), t \in Terminators(k), rest \in {<<>>, <<"b">>} :
                arg = <<ESC, k>> \o payload \o t \o rest =>
                    SequenceDiscarded(2 + Len(payload) + Len(t))

\* ESC P BEL a ESC \ b was fed with its terminator cut in two, and b came back
BellInsidePayloadDiscarded ==
    /\ call.op = "parseText"
    /\ arg = <<ESC, "P", BEL, "a", ESC, "\\", "b">>
    /\ call.text = <<"\\", "b">>
    /\ RunsText(call.runs) = <<"b">>
    /\ Idle(m_escapeCodeHandler)

\* The text st has a terminator of the string sequence ESC k in it
HasTerminator(st, k) == \E t \in Terminators(k) : contains(st, t)

\* C23: a call made while the decoder waits for the terminator of the
\* stream's string sequence, with no terminator in the pending text and the
\* chunk together, gives no run and no erase command, leaves the decoder
\* waiting and makes the pending text the two together; of a sequence that
\* never ends, everything after its first two characters is pending.
UnterminatedWithheld ==
    (call.op = "parseText" /\ arg[1] = ESC /\ arg[2] \in StringIntroducers) =>
        /\ (/\ call.preHandler.m_waitingForTerminator
            /\ ~HasTerminator(call.preHandler.m_pendingText \o call.text, arg[2]))
           => /\ call.out = <<>>
              /\ call.erase = "none"
              /\ m_escapeCodeHandler.m_waitingForTerminator
              /\ m_escapeCodeHandler.m_pendingText
                     = call.preHandler.m_pendingText \o call.text
        /\ (arg \in UnterminatedStreams /\ call.fed >= 2)
           => /\ call.runs = <<>>
              /\ m_escapeCodeHandler.m_waitingForTerminator
              /\ m_escapeCodeHandler.m_pendingText = SubSeq(arg, 3, call.fed)

\* ESC X BEL a b c was fed, the c in a call of its own with BEL a b pending:
\* nothing came back and all four characters are pending
PayloadGrowsWhileWaiting ==
    /\ call.op = "parseText"
    /\ arg = <<ESC, "X", BEL, "a", "b", "c">>
    /\ call.text = <<"c">>
    /\ call.preHandler.m_waitingForTerminator
    /\ call.preHandler.m_pendingText = <<BEL, "a", "b">>
    /\ call.runs = <<>>
    /\ m_escapeCodeHandler.m_pendingText = <<BEL, "a", "b", "c">>

\* C24: of ESC ] a BEL b ESC \ c the argument ends at the bell, the
\* terminator that comes first: b and c come back, however the stream is
\* cut into chunks.
FirstTerminatorEndsPayload ==
    (call.op = "parseText" /\ arg = BothTerminators /\ call.fed = Len(arg)) =>
        RunsText(call.runs) = <<"b", "c">>

\* Where the ESC of a two-character stream is
EscAt == IF arg[1] = ESC THEN 1 ELSE 2

\* The format the stream's text has: the one the decoder carried in, or
\* the baseline
StreamFormat ==
    IF call.handler.m_previousFormatClosed THEN ThemeFormat
    ELSE call.handler.m_previousFormat

\* C25: ESC N, ESC O and ESC \ give no run and leave the decoder as it was,
\* the text around them comes back; ESC before a character that begins no
\* sequence comes back as a run of its own, and the characters after it as
\* text, all in the current format, however the stream is cut into chunks.
TwoByteAndFailOpen ==
    (call.op = "parseText" /\ arg \in TwoCharStreams \cup FailOpenStreams) =>
        /\ \A i \in 1..Len(call.runs) : call.runs[i].format = StreamFormat
        /\ call.fed # EscAt => m_escapeCodeHandler = call.handler
        /\ call.fed < EscAt => RunsText(call.runs) = SubSeq(arg, 1, call.fed)
        /\ call.fed = EscAt => RunsText(call.runs) = SubSeq(arg, 1, EscAt - 1)
        /\ (call.fed > EscAt /\ arg \in TwoCharStreams) =>
               RunsText(call.runs)
                   = SubSeq(arg, 1, EscAt - 1) \o SubSeq(arg, EscAt + 2, call.fed)
        /\ (call.fed > EscAt /\ arg \in FailOpenStreams) =>
               /\ RunsText(call.runs) = SubSeq(arg, 1, call.fed)
               /\ \E i \in 1..Len(call.runs) : call.runs[i].text = <<ESC>>

\* a ESC Q b was fed to a decoder carrying a bold format, the ESC in a call
\* before the Q: the runs are a, ESC and Qb, all bold
EscapeEmittedLiterally ==
    /\ call.op = "parseText"
    /\ arg = <<"a", ESC, "Q", "b">>
    /\ call.text = <<"Q", "b">>
    /\ call.preHandler.m_pendingText = <<ESC>>
    /\ ~call.handler.m_previousFormatClosed
    /\ call.out = <<FormattedText(<<ESC>>, call.handler.m_previousFormat),
                    FormattedText(<<"Q", "b">>, call.handler.m_previousFormat)>>

\* The lines that fit the viewport: its height divided by the line height
ViewportLines == call.height \div FontHeight

\* The calls that scroll when automatic scrolling is on
ScrollingCalls == {"insertText", "append", "setText"}

\* The offset asked for when totalBlocks blocks are shown in viewportLines lines
ExpectedOffset(totalBlocks, viewportLines) ==
    IF totalBlocks > viewportLines THEN totalBlocks - viewportLines + 2 ELSE 0

\* C26: addText, append and setText leave the scroll bar alone when
\* automatic scrolling is off or no line fits the viewport; otherwise they
\* set its range to 0..totalBlocks and ask for the offset
\* totalBlocks - viewportLines + 2 when there are more blocks than lines, 0
\* when there are not.
AutoscrollPosition ==
    (call.op \in ScrollingCalls /\ call.enabled) =>
        /\ (~call.autoscroll \/ ViewportLines <= 0) => call.scroll = <<>>
        /\ (call.autoscroll /\ ViewportLines > 0) =>
               /\ Len(call.scroll) = 3
               /\ call.scroll[1] = [op |-> "setMinimum", v |-> 0]
               /\ call.scroll[2] = [op |-> "setMaximum", v |-> Len(document)]
               /\ call.scroll[3] = [op |-> "setValue",
                                    v |-> ExpectedOffset(Len(document), ViewportLines)]

\* C27: with one line or more in the viewport, the offset scrollToBottom
\* asks for is within the range it has set.
OffsetWithinRange ==
    (/\ call.op \in ScrollingCalls \cup {"setAutoscroll"}
     /\ call.scroll # <<>>
     /\ ViewportLines >= 1) =>
        /\ call.scroll[3].v >= call.scroll[1].v
        /\ call.scroll[3].v <= call.scroll[2].v

\* C28: a call that performed an erase command leaves no pending text.
NoResidueAfterErase ==
    (call.op = "parseText" /\ call.erase # "none") =>
        m_escapeCodeHandler.m_pendingText = <<>>

\* C29: the terminal's decoder has its format closed whenever a chunk
\* arrives, and a text chunk parsed by it comes back in the default format,
\* the baseline Terminal::vt100Processing passes.
NoStyleCarriedByTerminal ==
    /\ ~crashed => m_escapeCodeHandler.m_previousFormatClosed
    /\ (call.op = "insertText" /\ call.enabled /\ call.vt100) =>
           /\ call.preHandler.m_previousFormatClosed
           /\ (call.text = <<"a">> /\ Idle(call.preHandler)) =>
                  call.out = <<FormattedText(<<"a">>, DefaultFormat)>>

\* The chunk a was parsed by a decoder that an earlier ESC[31m had left
\* with red as its last format
TextAfterColourChunk ==
    /\ call.op = "insertText"
    /\ call.enabled
    /\ call.vt100
    /\ call.text = <<"a">>
    /\ Idle(call.preHandler)
    /\ call.preHandler.m_previousFormat.foreground = LowIntensity[2]
    /\ call.out = <<FormattedText(<<"a">>, DefaultFormat)>>

\* C30: insertText on a disabled widget leaves the document and every
\* field of the decoder as they were, touches no scroll bar and emits no
\* textChanged.
DisabledWidgetDropsInput ==
    (call.op = "insertText" /\ ~call.enabled) =>
        /\ document = call.preDocument
        /\ m_escapeCodeHandler = call.preHandler
        /\ call.scroll = <<>>
        /\ ~call.textChanged
        /\ ~crashed

\* The chunk a reached a disabled widget whose decoder had a pending text,
\* with the emulation on and a document that is not empty
ChunkDroppedWhileDisabled ==
    /\ call.op = "insertText"
    /\ ~call.enabled
    /\ call.vt100
    /\ call.text = <<"a">>
    /\ call.preHandler.m_pendingText # <<>>
    /\ call.preDocument # EmptyDocument
    /\ document = call.preDocument
    /\ m_escapeCodeHandler = call.preHandler

\* C31: between calls the decoder has an alternate terminator only while
\* it waits for the end of a string sequence, and only the bell, for a
\* stream that began with ESC ]; when a call ends the waiting, the alternate
\* terminator is empty after it.
AlternateTerminatorOnlyWhileWaiting ==
    /\ m_escapeCodeHandler.m_alternateTerminator # <<>> =>
           /\ m_escapeCodeHandler.m_waitingForTerminator
           /\ m_escapeCodeHandler.m_alternateTerminator = <<BEL>>
           /\ arg[1] = ESC /\ arg[2] = "]"
           /\ call.fed >= 2
    /\ (/\ call.op = "parseText"
        /\ call.preHandler.m_waitingForTerminator
        /\ ~m_escapeCodeHandler.m_waitingForTerminator)
       => m_escapeCodeHandler.m_alternateTerminator = <<>>

\* A call found the bell that ends ESC ] a: the decoder had the alternate
\* terminator and was waiting before it, and has neither after it
AlternateTerminatorCleared ==
    /\ call.op = "parseText"
    /\ arg = <<ESC, "]", "a", BEL, "b">>
    /\ call.preHandler.m_waitingForTerminator
    /\ call.preHandler.m_alternateTerminator = <<BEL>>
    /\ ~m_escapeCodeHandler.m_waitingForTerminator
    /\ m_escapeCodeHandler.m_alternateTerminator = <<>>

\* Nothing, ESC alone, or ESC [ with only digits and semicolons after it
CsiPrefix(p) ==
    \/ p = <<>>
    \/ p = <<ESC>>
    \/ /\ Len(p) >= 2
       /\ p[1] = ESC
       /\ p[2] = "["
       /\ \A i \in 3..Len(p) : p[i] \in Digits \cup {semicolon}

\* C32: between calls, a decoder that is not waiting for a string
\* terminator has a pending text that is empty, ESC, or ESC [ followed by
\* digits and semicolons only.
PendingTextShape ==
    (~crashed /\ ~m_escapeCodeHandler.m_waitingForTerminator) =>
        CsiPrefix(m_escapeCodeHandler.m_pendingText)

\* The chunk ESC[3 was given to an idle decoder and is pending whole
IncompleteSequencePending ==
    /\ call.op = "parseText"
    /\ call.text = CSI(<<"3">>)
    /\ Idle(call.preHandler)
    /\ ~m_escapeCodeHandler.m_waitingForTerminator
    /\ m_escapeCodeHandler.m_pendingText = CSI(<<"3">>)
    /\ call.out = <<>>

\* C33: when a call returns with the format open, the format the decoder
\* has stored is the one the call ended with, and a text the chunk ended
\* with came back in it.
FlagAndStyleAgree ==
    (/\ call.op = "parseText"
     /\ ~crashed
     /\ ~m_escapeCodeHandler.m_previousFormatClosed)
    => /\ m_escapeCodeHandler.m_previousFormat = call.charFormat
       /\ (call.out # <<>> /\ call.text[Len(call.text)] = "X") =>
              call.out[Len(call.out)].format = m_escapeCodeHandler.m_previousFormat

\* ESC[4;31mX was given to a closed decoder over the theme's baseline: X
\* came back red on the theme's format, which is the format stored
RedStoredOverTheme ==
    /\ call.op = "parseText"
    /\ call.text = UnknownThenRed
    /\ Idle(call.preHandler)
    /\ call.preHandler.m_previousFormatClosed
    /\ call.format = ThemeFormat
    /\ ~m_escapeCodeHandler.m_previousFormatClosed
    /\ m_escapeCodeHandler.m_previousFormat = [ThemeFormat EXCEPT !.foreground = LowIntensity[2]]
    /\ call.out = <<FormattedText(<<"X">>, m_escapeCodeHandler.m_previousFormat)>>

====
